---------------------------- MODULE Spec2Model ----------------------------
(***************************************************************************)
(* Model of src/OCR.py: the screenshot overlay (ScreenshotWidget), the     *)
(* request handlers of OCRMainWindow, the worker (OCRWorker.run) and the   *)
(* output parser (filter_ocr_bytes).                                       *)
(*                                                                         *)
(* Byte strings and text are sequences of tokens.  A token stands for one  *)
(* character or for one literal of the source that the code searches for:  *)
(*   "SM"  the literal written before stdout            (OCR.py:145)       *)
(*   "EM"  the error-output literal                     (OCR.py:83,146)    *)
(*   "DT"  b"FullDetectTime"                            (OCR.py:87)        *)
(*   "FM"  the recognition-failed literal               (OCR.py:149)       *)
(*   "NT"  the no-text-recognized sentinel              (OCR.py:104,149)   *)
(*   "EXC" the prefix of a caught exception's text, followed by what was   *)
(*         raised: "no_engine", "no_models", "spawn_error" (OCR.py:154)    *)
(*   "NL"  a newline, "SP" any other whitespace, "a" "b" text characters,  *)
(*   "X"   a byte that is not valid UTF-8,                                 *)
(*   "RC"  the replacement character, "MJ" a character that GBK decoding   *)
(*         makes of the bytes of a non-ASCII literal.                      *)
(*                                                                         *)
(* Handlers of the GUI thread are atomic steps; the worker thread of each  *)
(* request takes its own steps, interleaved with them.  The calls of       *)
(* QApplication.processEvents() and the modal dialogs inside a handler are *)
(* not points of interleaving here: the handlers that could run nested in  *)
(* them run before or after the handler instead.  Slots queued to the GUI  *)
(* thread by one signal run in connection order; slots of different        *)
(* requests run in any order.                                              *)
(*                                                                         *)
(* Source lines 225 and 671 hold a full-width full stop and comma; they    *)
(* are read as "." and ",".  Scale factors are ratios of the sizes in      *)
(* Monitors and WideMonitors, all of them exact in binary floating point,  *)
(* so int(a * scale) is the truncated exact product.                       *)
(* Normalize computes int(w * scale) in exact arithmetic as well; for the  *)
(* sizes in Files and in ImageWidths x ImageHeights the floating-point     *)
(* result of the source is the same.                                       *)
(***************************************************************************)
EXTENDS Integers, Sequences, FiniteSets, TLC

\* ------------------------------------------------------------------ bounds
MaxRequests == 2
MaxTimers == 1
MaxOut == 3
MaxBuf == 4

\* ------------------------------------------------------- program constants
MinSelection == 10
max_width == 1280
max_height == 720

Requests == 1..MaxRequests

\* ------------------------------------------------------------ token strings
Range(s) == {s[i] : i \in 1..Len(s)}

SetMin(S) == CHOOSE m \in S : \A n \in S : m <= n
SetMax(S) == CHOOSE m \in S : \A n \in S : n <= m

\* bytes.find(t, from): the first index >= from holding t, 0 when there is none
Find(s, t, from) ==
    LET hits == {i \in from..Len(s) : s[i] = t}
    IN IF hits = {} THEN 0 ELSE SetMin(hits)

stdout_marker == <<"SM", "NL">>
stderr_marker == <<"NL", "EM", "NL">>
Sentinel == <<"NT">>

AsciiTokens == {"a", "b", "SP", "NL", "DT"}

\* bytes.decode("utf-8"), and on UnicodeDecodeError bytes.decode("gbk", errors="replace")
Decode(bytes) ==
    IF "X" \notin Range(bytes)
    THEN bytes
    ELSE [i \in 1..Len(bytes) |->
            IF bytes[i] \in AsciiTokens THEN bytes[i]
            ELSE IF bytes[i] = "X" THEN "RC" ELSE "MJ"]

RECURSIVE Split(_)
\* str.split('\n')
Split(s) ==
    LET i == Find(s, "NL", 1)
    IN IF i = 0 THEN <<s>>
       ELSE <<SubSeq(s, 1, i - 1)>> \o Split(SubSeq(s, i + 1, Len(s)))

\* str.strip() of one line
Strip(s) ==
    LET keep == {i \in 1..Len(s) : s[i] # "SP"}
    IN IF keep = {} THEN <<>> ELSE SubSeq(s, SetMin(keep), SetMax(keep))

RECURSIVE StripLines(_)
\* [line.strip() for line in lines if line.strip()]
StripLines(ls) ==
    IF ls = <<>> THEN <<>>
    ELSE LET l == Strip(Head(ls))
         IN (IF l = <<>> THEN <<>> ELSE <<l>>) \o StripLines(Tail(ls))

RECURSIVE Join(_)
\* '\n'.join(lines)
Join(ls) ==
    IF ls = <<>> THEN <<>>
    ELSE IF Len(ls) = 1 THEN ls[1]
    ELSE ls[1] \o <<"NL">> \o Join(Tail(ls))

\* filter_ocr_bytes without the cut at the error marker of lines 83-85
filter_ocr_bytes_uncut(raw_bytes) ==
    LET raw == raw_bytes
        detect_start == Find(raw, "DT", 1)
        line_end == IF detect_start = 0 THEN 0 ELSE Find(raw, "NL", detect_start)
        result_bytes ==
            IF detect_start # 0
            THEN IF line_end # 0
                 THEN SubSeq(raw, line_end + 1, Len(raw))
                 ELSE SubSeq(raw, detect_start + 1, Len(raw))
            ELSE raw
        lines == StripLines(Split(Decode(result_bytes)))
    IN IF lines # <<>> THEN Join(lines) ELSE Sentinel

\* lines 81-104
filter_ocr_bytes(raw_bytes) ==
    LET em == Find(raw_bytes, "EM", 1)
        raw == IF em # 0 THEN SubSeq(raw_bytes, 1, em - 1) ELSE raw_bytes
        detect_start == Find(raw, "DT", 1)
        line_end == IF detect_start = 0 THEN 0 ELSE Find(raw, "NL", detect_start)
        result_bytes ==
            IF detect_start # 0
            THEN IF line_end # 0
                 THEN SubSeq(raw, line_end + 1, Len(raw))
                 ELSE SubSeq(raw, detect_start + 1, Len(raw))
            ELSE raw
        lines == StripLines(Split(Decode(result_bytes)))
    IN IF lines # <<>> THEN Join(lines) ELSE Sentinel


\* run_emit with the success emit falling through to the error emit
run_emit_fallthrough(pure_text) ==
    IF Sentinel = pure_text \/ "FM" \in Range(pure_text)
    THEN <<[sig |-> "error_occurred", text |-> pure_text]>>
    ELSE <<[sig |-> "result_ready", text |-> pure_text],
           [sig |-> "error_occurred", text |-> pure_text]>>

\* run_emit testing the failure marker only, not the sentinel
run_emit_marker_only(pure_text) ==
    IF "FM" \in Range(pure_text)
    THEN <<[sig |-> "error_occurred", text |-> pure_text]>>
    ELSE <<[sig |-> "result_ready", text |-> pure_text]>>

\* worker: OCRWorker.run, lines 149-152: the signals emitted for a parsed text
run_emit(pure_text) ==
    IF Sentinel = pure_text \/ "FM" \in Range(pure_text)
    THEN <<[sig |-> "error_occurred", text |-> pure_text]>>
    ELSE <<[sig |-> "result_ready", text |-> pure_text]>>

\* worker: OCRWorker.run, lines 145-148: the buffer handed to the parser
run_raw_bytes(out) == stdout_marker \o out.stdout \o stderr_marker \o out.stderr

\* ---------------------------------------------------------------- inputs
\* what the engine process may write before it exits
EngineOutputs ==
    { [stdout |-> <<"DT", "a", "NL", "b", "NL">>, stderr |-> <<>>] }

\* what the worker finds when it runs: the engine and the models in place,
\* or the engine missing (line 121)
RunEnvs == {"ok", "no_engine"}

\* files the user may pick in the dialog; NoImage is a cancelled dialog
Files ==
    { [kind |-> "file", mode |-> "RGB", w |-> 2560, h |-> 1600],
      [kind |-> "file", mode |-> "RGB", w |-> 5000, h |-> 2],
      [kind |-> "file", mode |-> "truncated", w |-> 20, h |-> 20],
      [kind |-> "file", mode |-> "unreadable", w |-> 0, h |-> 0] }

NoImage == [kind |-> "none", mode |-> "none", w |-> 0, h |-> 0]

\* the screen grab fails: no monitor to capture
NoMonitor ==
    [physical_width |-> 0, physical_height |-> 0,
     logical_width |-> 0, logical_height |-> 0]

\* monitors[1] and the primary screen: physical and logical size
Monitors ==
    { [physical_width |-> 48, physical_height |-> 48,
       logical_width |-> 32, logical_height |-> 32] }

\* pointer positions in logical pixels: where the button goes down, and where
\* the pointer is dragged to
PressPositions == {<<0, 0>>}
MovePositions == {<<30, 30>>}

\* ------------------------------------------------------------------ state
VARIABLES
    visible,             \* the main window is shown
    timers,              \* pending QTimer.singleShot(200, _launch_screenshot)
    screenshot_widget,   \* the overlay: ScreenshotWidget
    nreq,                \* requests made so far: current_screenshot assignments
    current_screenshot,  \* OCRMainWindow.current_screenshot: an image, by request
    text_edit,           \* text shown in the text box
    image_label,         \* 0: nothing, -1: the busy text, r: the pixmap of image r
    image,               \* image[r]: the source image of request r
    tmp,                 \* tmp[r]: the temporary file of request r
    wstate,              \* wstate[r]: the thread and worker of request r
    engineOut,           \* engineOut[r]: what the engine process of r wrote
    emits,               \* emits[r]: the signals the worker of r has emitted
    startup,             \* the start of the program: the files found, the exit
    parse,               \* a call of filter_ocr_bytes: its argument, its result
    resize,              \* the size normalisation of one image: its size, the result
    ocr_worker           \* ocr_worker[r]: the OCRWorker of request r, by the request
                         \* whose file its image_path names and its engine was given

vars == <<visible, timers, screenshot_widget, nreq, current_screenshot, text_edit,
          image_label, image, tmp, wstate, engineOut, emits, startup, parse, resize,
          ocr_worker>>

\* __main__, lines 667-672: the model files looked for in the models directory
required_models == <<"keys", "det", "cls", "rec">>

\* the files the program looks for when it starts: lines 665 and 674
StartupFiles == {"engine"} \cup Range(required_models)

\* __main__ past line 681: every file was found, the main window exists
Started ==
    [phase |-> "running", i |-> Len(required_models) + 1, present |-> StartupFiles,
     missing |-> <<>>, exit_code |-> 0]

\* filter_ocr_bytes has not been called on its own
NoParse == [raw_bytes |-> <<>>, returned |-> <<>>, done |-> FALSE]

\* no image has been normalised on its own
NoResize == [w |-> 0, h |-> 0, size |-> <<0, 0>>, outcome |-> "none", done |-> FALSE]

\* no OCRWorker has been made for the request: no path, no engine launched
NoWorker == [image_path |-> 0, cmd_image |-> 0]

NoOutput == [stdout |-> <<"none">>, stderr |-> <<"none">>]
Busy == <<"BUSY">>

\* no crop made: the box given to pil_image.crop at line 244, once there is one
NoCrop == <<0, 0, 0, 0>>

\* no overlay has been launched yet
NoWidget ==
    [open |-> FALSE, monitor |-> NoMonitor,
     origin |-> <<0, 0>>, current_rect |-> [x |-> 0, y |-> 0, w |-> 0, h |-> 0],
     rubberband |-> FALSE, cropped |-> NoCrop]

Init ==
    /\ visible = TRUE
    /\ timers = 0
    /\ screenshot_widget = NoWidget
    /\ nreq = 0
    /\ current_screenshot = 0
    /\ text_edit = <<>>
    /\ image_label = 0
    /\ image = [r \in Requests |-> NoImage]
    /\ tmp = [r \in Requests |-> "none"]
    /\ wstate = [r \in Requests |-> "none"]
    /\ engineOut = [r \in Requests |-> NoOutput]
    /\ emits = [r \in Requests |-> <<>>]
    /\ startup = Started
    /\ parse = NoParse
    /\ resize = NoResize
    /\ ocr_worker = [r \in Requests |-> NoWorker]

\* --------------------------------------------------------------- geometry
\* QRect(p1, p2).normalized(): corners swapped where the width or height is negative
QRectNormalized(p1, p2) ==
    LET sx == p2[1] < p1[1] - 1
        sy == p2[2] < p1[2] - 1
        x1 == IF sx THEN p2[1] ELSE p1[1]
        x2 == IF sx THEN p1[1] ELSE p2[1]
        y1 == IF sy THEN p2[2] ELSE p1[2]
        y2 == IF sy THEN p1[2] ELSE p2[2]
    IN [x |-> x1, y |-> y1, w |-> x2 - x1 + 1, h |-> y2 - y1 + 1]

\* IntScale rounding to the nearest integer, halves away from zero
IntScale_round(a, num, den) ==
    IF a * num >= 0 THEN (2 * a * num + den) \div (2 * den)
    ELSE -((2 * (-(a * num)) + den) \div (2 * den))

\* int(a * (num / den)) for den > 0: truncation toward zero
IntScale(a, num, den) ==
    IF a * num >= 0 THEN (a * num) \div den ELSE -((-(a * num)) \div den)

Min2(a, b) == IF a <= b THEN a ELSE b
Max2(a, b) == IF a >= b THEN a ELSE b

\* CropBox without the upper clamps of x2 and y2
CropBox_unclamped(rect, m) ==
    LET x1 == IntScale(rect.x, m.physical_width, m.logical_width)
        y1 == IntScale(rect.y, m.physical_height, m.logical_height)
        x2 == IntScale(rect.x + rect.w, m.physical_width, m.logical_width)
        y2 == IntScale(rect.y + rect.h, m.physical_height, m.logical_height)
    IN << Max2(0, Min2(x1, m.physical_width - 1)),
          Max2(0, Min2(y1, m.physical_height - 1)),
          Max2(1, x2),
          Max2(1, y2) >>

\* mouseReleaseEvent, lines 231-238: the crop box <<x1, y1, x2, y2>>
CropBox(rect, m) ==
    LET x1 == IntScale(rect.x, m.physical_width, m.logical_width)
        y1 == IntScale(rect.y, m.physical_height, m.logical_height)
        x2 == IntScale(rect.x + rect.w, m.physical_width, m.logical_width)
        y2 == IntScale(rect.y + rect.h, m.physical_height, m.logical_height)
    IN << Max2(0, Min2(x1, m.physical_width - 1)),
          Max2(0, Min2(y1, m.physical_height - 1)),
          Max2(1, Min2(x2, m.physical_width)),
          Max2(1, Min2(y2, m.physical_height)) >>

\* Discarded with "and" for "or"
Discarded_both(rect) == rect.w <= MinSelection /\ rect.h <= MinSelection

\* mouseReleaseEvent, line 227: the selection is discarded
Discarded(rect) == rect.w <= MinSelection \/ rect.h <= MinSelection

\* ---------------------------------------------------------- preprocessing
\* lines 536-541 / 591-596: the size handed to resize, or the size unchanged
Normalize(w, h) ==
    IF w > max_width \/ h > max_height
    THEN IF max_width * h <= max_height * w
         THEN <<(w * max_width) \div w, (h * max_width) \div w>>
         ELSE <<(w * max_height) \div h, (h * max_height) \div h>>
    ELSE <<w, h>>

\* how preprocessing of an image ends, lines 533-561 / 588-616:
\*   "resize_error"  resize raises (an image that cannot be loaded, a size of 0)
\*   "save_error"    the temporary file is created and save raises
\*   "started"       the file is written and the thread is started
Preprocess(img, diskOk) ==
    LET size == Normalize(img.w, img.h)
        resized == img.w > max_width \/ img.h > max_height
    IN IF resized /\ (img.mode = "truncated" \/ size[1] <= 0 \/ size[2] <= 0)
       THEN "resize_error"
       ELSE IF img.mode \in {"CMYK", "truncated"} \/ ~diskOk
       THEN "save_error"
       ELSE "started"


\* ------------------------------------------------------------ GUI handlers
\* StartThread with the path kept in one place that every worker reads
StartThread_shared(r) ==
    /\ wstate' = [wstate EXCEPT ![r] = "started"]
    /\ ocr_worker' = [q \in Requests |->
          IF q = r \/ ocr_worker[q].image_path # 0
          THEN [ocr_worker[q] EXCEPT !.image_path = r] ELSE ocr_worker[q]]

\* lines 549-561 / 604-616: a thread and a worker for request r, started;
\* OCRWorker(temp_path) keeps the path of the file just written (lines 112-114)
StartThread(r) ==
    /\ wstate' = [wstate EXCEPT ![r] = "started"]
    /\ ocr_worker' = [ocr_worker EXCEPT ![r].image_path = r]

\* CreateTemp leaving the file unwritten
CreateTemp_unwritten(r) == tmp' = tmp

\* lines 543-546 / 598-601: NamedTemporaryFile(delete=False) for request r
CreateTemp(r) == tmp' = [tmp EXCEPT ![r] = "exists"]

\* OCRMainWindow.show_window
show_window == visible' = TRUE

\* OCRMainWindow.closeEvent: the tray icon is visible, the window hides
closeEvent ==
    /\ visible
    /\ visible' = FALSE
    /\ UNCHANGED <<timers, screenshot_widget, nreq, current_screenshot, text_edit,
                   image_label, image, tmp, wstate, engineOut,
                   startup, parse, resize, ocr_worker, emits>>

\* the tray menu's show action, or a click on the tray icon
TrayShow ==
    /\ startup.phase = "running"
    /\ ~visible
    /\ show_window
    /\ UNCHANGED <<timers, screenshot_widget, nreq, current_screenshot, text_edit,
                   image_label, image, tmp, wstate, engineOut,
                   startup, parse, resize, ocr_worker, emits>>

\* OCRMainWindow.start_screenshot: a click on the capture button
start_screenshot ==
    /\ visible
    /\ timers < MaxTimers
    /\ visible' = FALSE
    /\ timers' = timers + 1
    /\ UNCHANGED <<screenshot_widget, nreq, current_screenshot, text_edit,
                   image_label, image, tmp, wstate, engineOut,
                   startup, parse, resize, ocr_worker, emits>>

\* OCRMainWindow._launch_screenshot: the timer fires; the screen grab in
\* ScreenshotWidget.__init__ may raise, and then no overlay is assigned or shown
launch_screenshot(m) ==
    /\ timers > 0
    /\ timers' = timers - 1
    /\ screenshot_widget' =
          IF m = NoMonitor THEN screenshot_widget
          ELSE [open |-> TRUE, monitor |-> m, origin |-> <<0, 0>>,
                current_rect |-> [x |-> 0, y |-> 0, w |-> 0, h |-> 0],
                rubberband |-> FALSE, cropped |-> NoCrop]
    /\ UNCHANGED <<visible, nreq, current_screenshot, text_edit,
                   image_label, image, tmp, wstate, engineOut,
                   startup, parse, resize, ocr_worker, emits>>

\* ScreenshotWidget.mousePressEvent
mousePressEvent(pos) ==
    /\ screenshot_widget.open
    /\ ~screenshot_widget.rubberband
    /\ screenshot_widget' = [screenshot_widget EXCEPT
          !.origin = pos,
          !.current_rect = QRectNormalized(pos, pos),
          !.rubberband = TRUE]
    /\ UNCHANGED <<visible, timers, nreq, current_screenshot, text_edit,
                   image_label, image, tmp, wstate, engineOut,
                   startup, parse, resize, ocr_worker, emits>>

\* ScreenshotWidget.mouseMoveEvent: delivered while the button is held
mouseMoveEvent(pos) ==
    /\ screenshot_widget.open
    /\ screenshot_widget.rubberband
    /\ screenshot_widget' = [screenshot_widget EXCEPT
          !.current_rect = QRectNormalized(screenshot_widget.origin, pos)]
    /\ UNCHANGED <<visible, timers, nreq, current_screenshot, text_edit,
                   image_label, image, tmp, wstate, engineOut,
                   startup, parse, resize, ocr_worker, emits>>

\* OCRMainWindow.on_ocr_ready(pil_image): the slot of screenshot_taken
on_ocr_ready(pil_image, diskOk) ==
    LET r == nreq + 1
        end == Preprocess(pil_image, diskOk)
    IN /\ nreq' = r
       /\ current_screenshot' = r
       /\ image' = [image EXCEPT ![r] = pil_image]
       /\ text_edit' = Busy
       /\ image_label' = -1
       /\ IF pil_image.w = 0 \/ pil_image.h = 0
          THEN show_window /\ UNCHANGED <<tmp, wstate, ocr_worker>>
          ELSE IF end = "resize_error"
          THEN show_window /\ UNCHANGED <<tmp, wstate, ocr_worker>>
          ELSE IF end = "save_error"
          THEN CreateTemp(r) /\ show_window /\ UNCHANGED <<wstate, ocr_worker>>
          ELSE CreateTemp(r) /\ StartThread(r) /\ UNCHANGED visible

\* ScreenshotWidget.mouseReleaseEvent
mouseReleaseEvent(diskOk) ==
    /\ screenshot_widget.open
    /\ screenshot_widget.rubberband
    /\ LET rect == screenshot_widget.current_rect
           box == CropBox(rect, screenshot_widget.monitor)
       IN IF Discarded(rect) \/ box[3] <= box[1] \/ box[4] <= box[2]
          THEN UNCHANGED <<visible, nreq, current_screenshot, text_edit,
                           image_label, image, tmp, wstate, ocr_worker>>
          ELSE /\ nreq < MaxRequests
               /\ on_ocr_ready([kind |-> "capture", mode |-> "RGB",
                                w |-> box[3] - box[1], h |-> box[4] - box[2]],
                               diskOk)
    /\ screenshot_widget' = [screenshot_widget EXCEPT
          !.open = FALSE, !.rubberband = FALSE,
          !.cropped = LET rect == screenshot_widget.current_rect
                          box == CropBox(rect, screenshot_widget.monitor)
                      IN IF Discarded(rect) \/ box[3] <= box[1] \/ box[4] <= box[2]
                         THEN NoCrop ELSE box]
    /\ UNCHANGED <<timers, engineOut, startup, parse, resize, emits>>

\* OCRMainWindow.select_image_for_ocr: a click on the select button and the
\* file dialog's answer
select_image_for_ocr(file, diskOk) ==
    /\ visible
    /\ IF file = NoImage \/ file.mode = "unreadable"
       THEN UNCHANGED <<nreq, current_screenshot, text_edit, image_label,
                        image, tmp, wstate, ocr_worker>>
       ELSE LET r == nreq + 1
                end == Preprocess(file, diskOk)
            IN /\ nreq < MaxRequests
               /\ nreq' = r
               /\ current_screenshot' = r
               /\ image' = [image EXCEPT ![r] = file]
               /\ text_edit' = Busy
               /\ image_label' = -1
               /\ IF end = "resize_error"
                  THEN UNCHANGED <<tmp, wstate, ocr_worker>>
                  ELSE IF end = "save_error"
                  THEN CreateTemp(r) /\ UNCHANGED <<wstate, ocr_worker>>
                  ELSE CreateTemp(r) /\ StartThread(r)
    /\ UNCHANGED <<visible, timers, screenshot_widget, engineOut,
                   startup, parse, resize, emits>>

\* OCRMainWindow.handle_ocr_result, queued by result_ready of request r
handle_ocr_result(r) ==
    /\ wstate[r] = "emitted"
    /\ emits[r][Len(emits[r])].sig = "result_ready"
    /\ IF image[current_screenshot].mode = "truncated"
       THEN UNCHANGED <<image_label, text_edit>>
       ELSE /\ image_label' = current_screenshot
            /\ text_edit' = emits[r][Len(emits[r])].text
    /\ show_window
    /\ wstate' = [wstate EXCEPT ![r] = "handled"]
    /\ UNCHANGED <<timers, screenshot_widget, nreq, current_screenshot,
                   image, tmp, engineOut, startup, parse, resize, ocr_worker, emits>>

\* OCRMainWindow.handle_ocr_error, queued by error_occurred of request r
handle_ocr_error(r) ==
    /\ wstate[r] = "emitted"
    /\ emits[r][Len(emits[r])].sig = "error_occurred"
    /\ show_window
    /\ wstate' = [wstate EXCEPT ![r] = "handled"]
    /\ UNCHANGED <<timers, screenshot_widget, nreq, current_screenshot, text_edit,
                   image_label, image, tmp, engineOut,
                   startup, parse, resize, ocr_worker, emits>>

\* QThread.quit of request r, queued behind the handler by the same signal
thread_quit(r) ==
    /\ wstate[r] = "handled"
    /\ wstate' = [wstate EXCEPT ![r] = "quitting"]
    /\ UNCHANGED <<visible, timers, screenshot_widget, nreq, current_screenshot,
                   text_edit, image_label, image, tmp, engineOut,
                   startup, parse, resize, ocr_worker, emits>>

\* thread_finished unlinking the path of the newest request, as a lambda reading
\* a path kept on the window would
thread_finished_newest(r) ==
    /\ wstate[r] = "quitting"
    /\ wstate' = [wstate EXCEPT ![r] = "finished"]
    /\ tmp' = [tmp EXCEPT ![nreq] = "deleted"]
    /\ UNCHANGED <<visible, timers, screenshot_widget, nreq, current_screenshot,
                   text_edit, image_label, image, engineOut,
                   startup, parse, resize, ocr_worker, emits>>

\* QThread.finished of request r: the lambda of line 558 / 613 unlinks temp_path
thread_finished(r) ==
    /\ wstate[r] = "quitting"
    /\ wstate' = [wstate EXCEPT ![r] = "finished"]
    /\ tmp' = [tmp EXCEPT ![r] = "deleted"]
    /\ UNCHANGED <<visible, timers, screenshot_widget, nreq, current_screenshot,
                   text_edit, image_label, image, engineOut,
                   startup, parse, resize, ocr_worker, emits>>

\* the stages in which the QThread of a request is running
ThreadRunning == {"started", "engine", "emitted", "handled", "quitting"}

\* Lines 549 / 604 assign a new QThread to self.ocr_thread.  The QThread of an
\* earlier request has no parent and no other reference, so it is destroyed
\* when the interpreter collects it: at the assignment, later, or not before
\* it has finished.  Qt ends the process when a QThread is destroyed while it
\* is running: the window, the tray icon, the timers and every thread go, the
\* temporary files stay.
thread_destroyed ==
    /\ startup.phase = "running"
    /\ \E q, r \in Requests :
          /\ q < r
          /\ wstate[q] \in ThreadRunning
          /\ ocr_worker[r].image_path # 0
    /\ startup' = [startup EXCEPT !.phase = "aborted", !.exit_code = 3]
    /\ visible' = FALSE
    /\ timers' = 0
    /\ screenshot_widget' = [screenshot_widget EXCEPT
          !.open = FALSE, !.rubberband = FALSE]
    /\ wstate' = [r \in Requests |->
          IF wstate[r] \in ThreadRunning THEN "aborted" ELSE wstate[r]]
    /\ UNCHANGED <<nreq, current_screenshot, text_edit, image_label, image, tmp,
                   engineOut, emits, parse, resize, ocr_worker>>

\* ------------------------------------------------------------------ worker
\* run_start reporting a failed check and launching the engine all the same
run_start_launches(r, env) ==
    /\ wstate[r] = "started"
    /\ wstate' = [wstate EXCEPT ![r] = "engine"]
    /\ ocr_worker' = [ocr_worker EXCEPT ![r].cmd_image = ocr_worker[r].image_path]
    /\ IF env = "ok"
       THEN UNCHANGED emits
       ELSE emits' = [emits EXCEPT ![r] =
                  @ \o <<[sig |-> "error_occurred", text |-> <<"EXC", env>>]>>]
    /\ UNCHANGED <<visible, timers, screenshot_widget, nreq, current_screenshot,
                   text_edit, image_label, image, tmp, engineOut, startup, parse,
                   resize>>

\* OCRWorker.run, lines 117-143: the checks and the spawn; an exception is
\* caught at line 153 and emitted
run_start(r, env) ==
    /\ wstate[r] = "started"
    /\ IF env = "ok"
       THEN /\ wstate' = [wstate EXCEPT ![r] = "engine"]
            /\ UNCHANGED emits
            /\ ocr_worker' = [ocr_worker EXCEPT
                  ![r].cmd_image = ocr_worker[r].image_path]
       ELSE /\ wstate' = [wstate EXCEPT ![r] = "emitted"]
            /\ emits' = [emits EXCEPT ![r] =
                  @ \o <<[sig |-> "error_occurred", text |-> <<"EXC", env>>]>>]
            /\ UNCHANGED ocr_worker
    /\ UNCHANGED <<visible, timers, screenshot_widget, nreq, current_screenshot,
                   text_edit, image_label, image, tmp, engineOut, startup, parse,
                   resize>>

\* run_finish writing the parsed text into the window itself
run_finish_sync(r, out) ==
    /\ wstate[r] = "engine"
    /\ UNCHANGED <<startup, parse, resize, ocr_worker>>
    /\ engineOut' = [engineOut EXCEPT ![r] = out]
    /\ emits' = [emits EXCEPT ![r] = @ \o run_emit(filter_ocr_bytes(run_raw_bytes(out)))]
    /\ wstate' = [wstate EXCEPT ![r] = "emitted"]
    /\ text_edit' = filter_ocr_bytes(run_raw_bytes(out))
    /\ visible' = TRUE
    /\ UNCHANGED <<timers, screenshot_widget, nreq, current_screenshot,
                   image_label, image, tmp>>

\* OCRWorker.run, lines 138-152: the engine exits, its output is parsed and
\* the outcome is emitted
run_finish(r, out) ==
    /\ wstate[r] = "engine"
    /\ UNCHANGED <<startup, parse, resize, ocr_worker>>
    /\ engineOut' = [engineOut EXCEPT ![r] = out]
    /\ emits' = [emits EXCEPT ![r] = @ \o run_emit(filter_ocr_bytes(run_raw_bytes(out)))]
    /\ wstate' = [wstate EXCEPT ![r] = "emitted"]
    /\ UNCHANGED <<visible, timers, screenshot_widget, nreq, current_screenshot,
                   text_edit, image_label, image, tmp>>

\* ----------------------------------------------------------- specification
Next ==
    \/ closeEvent
    \/ TrayShow
    \/ start_screenshot
    \/ \E m \in Monitors \cup {NoMonitor} : launch_screenshot(m)
    \/ \E pos \in PressPositions : mousePressEvent(pos)
    \/ \E pos \in MovePositions : mouseMoveEvent(pos)
    \/ \E diskOk \in BOOLEAN : mouseReleaseEvent(diskOk)
    \/ \E file \in Files \cup {NoImage}, diskOk \in BOOLEAN :
          select_image_for_ocr(file, diskOk)
    \/ \E r \in Requests : handle_ocr_result(r)
    \/ \E r \in Requests : handle_ocr_error(r)
    \/ \E r \in Requests : thread_quit(r)
    \/ \E r \in Requests : thread_finished(r)
    \/ thread_destroyed
    \/ \E r \in Requests, env \in RunEnvs : run_start(r, env)
    \/ \E r \in Requests, out \in EngineOutputs : run_finish(r, out)

Spec == Init /\ [][Next]_vars


\* ------------------------------------------------- the worker, every output
OutTokens == {"a", "SP", "NL", "DT", "FM", "NT", "EM", "X"}

\* every stdout of at most MaxOut tokens
Stdouts == UNION {[1..n -> OutTokens] : n \in 0..MaxOut}

WideOutputs == [stdout : Stdouts, stderr : {<<>>, <<"a">>, <<"FM", "NL">>}]

\* what the worker finds when it runs: lines 121-124 and the spawn at 138
WideRunEnvs == {"ok", "no_engine", "no_models", "spawn_error"}

OkFile == [kind |-> "file", mode |-> "RGB", w |-> 2560, h |-> 1600]

\* the first request of a session: a picked image that loads and saves
first_request ==
    /\ nreq = 0
    /\ select_image_for_ocr(OkFile, TRUE)

NextRun ==
    \/ first_request
    \/ \E env \in WideRunEnvs : run_start(1, env)
    \/ (wstate[1] = "engine" /\ \E out \in WideOutputs : run_finish(1, out))
    \/ handle_ocr_result(1)
    \/ handle_ocr_error(1)
    \/ thread_quit(1)
    \/ thread_finished(1)

SpecRun == Init /\ [][NextRun]_vars

\* ------------------------------------------------ the overlay, every drag
WideMonitors ==
    { [physical_width |-> 32, physical_height |-> 32,
       logical_width |-> 32, logical_height |-> 32],
      [physical_width |-> 48, physical_height |-> 48,
       logical_width |-> 32, logical_height |-> 32],
      [physical_width |-> 40, physical_height |-> 64,
       logical_width |-> 32, logical_height |-> 32] }

\* pointer positions, on the screen and beyond its edges
WidePositions == {-5, 0, 9, 10, 30, 40} \X {0, 10, 30}

NextOverlay ==
    \/ start_screenshot
    \/ \E m \in WideMonitors \cup {NoMonitor} : launch_screenshot(m)
    \/ \E pos \in WidePositions : mousePressEvent(pos)
    \/ \E pos \in WidePositions : mouseMoveEvent(pos)
    \/ mouseReleaseEvent(TRUE)

SpecOverlay == Init /\ [][NextOverlay]_vars

\* ------------------------------------- the mapping of a selection, widely
\* monitors of scale 1, 1.5, 1.25 by 2, and one on which 200 x 100 fits at 1.5
MapMonitors ==
    WideMonitors \cup
    { [physical_width |-> 360, physical_height |-> 180,
       logical_width |-> 240, logical_height |-> 120] }

\* selections drawn down and right from their origin, on and off the screen
MapRects ==
    [x : {-5, -1, 0, 1, 2, 3, 9, 10, 30, 40, 55}, y : {-2, 0, 1, 10, 20},
     w : {1, 10, 11, 12, 31, 200}, h : {10, 11, 12, 31, 100}]

\* the overlay as a drag has left it: lines 510-518, 211-222
InitMap ==
    /\ visible = FALSE
    /\ timers = 0
    /\ \E m \in MapMonitors, rect \in MapRects :
         screenshot_widget =
             [open |-> TRUE, monitor |-> m, origin |-> <<rect.x, rect.y>>,
              current_rect |-> rect, rubberband |-> TRUE, cropped |-> NoCrop]
    /\ nreq = 0
    /\ current_screenshot = FALSE
    /\ text_edit = <<>>
    /\ image_label = "none"
    /\ image = [r \in Requests |-> NoImage]
    /\ tmp = [r \in Requests |-> "none"]
    /\ wstate = [r \in Requests |-> "none"]
    /\ engineOut = [r \in Requests |-> NoOutput]
    /\ emits = [r \in Requests |-> <<>>]
    /\ startup = Started
    /\ parse = NoParse
    /\ resize = NoResize
    /\ ocr_worker = [r \in Requests |-> NoWorker]

NextMap == mouseReleaseEvent(TRUE)

SpecMap == InitMap /\ [][NextMap]_vars

\* ------------------------------------------------ the start of the program
\* __main__, lines 660-664: the application object exists, no window does,
\* and any of the files may be absent
InitStartup ==
    /\ visible = FALSE
    /\ timers = 0
    /\ screenshot_widget = NoWidget
    /\ nreq = 0
    /\ current_screenshot = 0
    /\ text_edit = <<>>
    /\ image_label = 0
    /\ image = [r \in Requests |-> NoImage]
    /\ tmp = [r \in Requests |-> "none"]
    /\ wstate = [r \in Requests |-> "none"]
    /\ engineOut = [r \in Requests |-> NoOutput]
    /\ emits = [r \in Requests |-> <<>>]
    /\ parse = NoParse
    /\ resize = NoResize
    /\ ocr_worker = [r \in Requests |-> NoWorker]
    /\ \E present \in SUBSET StartupFiles :
         startup = [phase |-> "checking", i |-> 0, present |-> present,
                    missing |-> <<>>, exit_code |-> 0]

\* lines 665-666: the engine is looked for
check_engine ==
    /\ startup.phase = "checking"
    /\ startup.i = 0
    /\ startup' = [startup EXCEPT
          !.i = 1,
          !.missing = IF "engine" \in startup.present THEN @ ELSE Append(@, "engine")]
    /\ UNCHANGED <<visible, timers, screenshot_widget, nreq, current_screenshot,
                   text_edit, image_label, image, tmp, wstate, engineOut, emits,
                   parse, resize, ocr_worker>>

\* check_model taking every model file for present
check_model_found ==
    /\ startup.phase = "checking"
    /\ startup.i \in 1..Len(required_models)
    /\ startup' = [startup EXCEPT !.i = @ + 1]
    /\ UNCHANGED <<visible, timers, screenshot_widget, nreq, current_screenshot,
                   text_edit, image_label, image, tmp, wstate, engineOut, emits,
                   parse, resize, ocr_worker>>

\* lines 673-675: one turn of the loop over required_models
check_model ==
    /\ startup.phase = "checking"
    /\ startup.i \in 1..Len(required_models)
    /\ startup' = [startup EXCEPT
          !.i = @ + 1,
          !.missing = IF required_models[startup.i] \in startup.present
                      THEN @ ELSE Append(@, required_models[startup.i])]
    /\ UNCHANGED <<visible, timers, screenshot_widget, nreq, current_screenshot,
                   text_edit, image_label, image, tmp, wstate, engineOut, emits,
                   parse, resize, ocr_worker>>

\* lines 677-679: the missing files are shown in a dialog, then sys.exit(1)
startup_exit ==
    /\ startup.phase = "checking"
    /\ startup.i = Len(required_models) + 1
    /\ startup.missing # <<>>
    /\ startup' = [startup EXCEPT !.phase = "exited", !.exit_code = 1]
    /\ UNCHANGED <<visible, timers, screenshot_widget, nreq, current_screenshot,
                   text_edit, image_label, image, tmp, wstate, engineOut, emits,
                   parse, resize, ocr_worker>>

\* line 681: OCRMainWindow() is constructed, and shows itself at line 451
create_window ==
    /\ startup.phase = "checking"
    /\ startup.i = Len(required_models) + 1
    /\ startup.missing = <<>>
    /\ startup' = [startup EXCEPT !.phase = "running"]
    /\ show_window
    /\ UNCHANGED <<timers, screenshot_widget, nreq, current_screenshot,
                   text_edit, image_label, image, tmp, wstate, engineOut, emits,
                   parse, resize, ocr_worker>>

NextStartup ==
    \/ check_engine
    \/ check_model
    \/ startup_exit
    \/ create_window

SpecStartup == InitStartup /\ [][NextStartup]_vars

\* ------------------------------------------- the parser, on every buffer
BufTokens == {"a", "SP", "NL", "DT", "EM", "FM", "NT", "X"}

\* every buffer of at most MaxBuf tokens
Buffers == UNION {[1..n -> BufTokens] : n \in 0..MaxBuf}

\* a buffer is about to be handed to filter_ocr_bytes
InitParse ==
    /\ visible = TRUE
    /\ timers = 0
    /\ screenshot_widget = NoWidget
    /\ nreq = 0
    /\ current_screenshot = 0
    /\ text_edit = <<>>
    /\ image_label = 0
    /\ image = [r \in Requests |-> NoImage]
    /\ tmp = [r \in Requests |-> "none"]
    /\ wstate = [r \in Requests |-> "none"]
    /\ engineOut = [r \in Requests |-> NoOutput]
    /\ emits = [r \in Requests |-> <<>>]
    /\ startup = Started
    /\ resize = NoResize
    /\ ocr_worker = [r \in Requests |-> NoWorker]
    /\ \E raw_bytes \in Buffers :
         parse = [raw_bytes |-> raw_bytes, returned |-> <<>>, done |-> FALSE]

\* filter_ocr_bytes(raw_bytes), lines 81-104, called and returned
filter_call ==
    /\ ~parse.done
    /\ parse' = [parse EXCEPT !.returned = filter_ocr_bytes(parse.raw_bytes),
                              !.done = TRUE]
    /\ UNCHANGED <<visible, timers, screenshot_widget, nreq, current_screenshot,
                   text_edit, image_label, image, tmp, wstate, engineOut, emits,
                   startup, resize, ocr_worker>>

NextParse == filter_call

SpecParse == InitParse /\ [][NextParse]_vars

\* ------------------------------------- the size normalisation, every size
\* widths and heights of images: within the bounds, just past them, far past
\* them, and very small
ImageWidths == {1, 2, 640, 1280, 1281, 1920, 2560, 3840, 5000}
ImageHeights == {1, 2, 360, 720, 721, 1080, 1600, 2160}

\* an RGB image is about to be normalised: lines 527-532 / 582-587
InitResize ==
    /\ visible = TRUE
    /\ timers = 0
    /\ screenshot_widget = NoWidget
    /\ nreq = 0
    /\ current_screenshot = 0
    /\ text_edit = <<>>
    /\ image_label = 0
    /\ image = [r \in Requests |-> NoImage]
    /\ tmp = [r \in Requests |-> "none"]
    /\ wstate = [r \in Requests |-> "none"]
    /\ engineOut = [r \in Requests |-> NoOutput]
    /\ emits = [r \in Requests |-> <<>>]
    /\ startup = Started
    /\ parse = NoParse
    /\ \E w \in ImageWidths, h \in ImageHeights :
         resize = [w |-> w, h |-> h, size |-> <<0, 0>>, outcome |-> "none",
                   done |-> FALSE]
    /\ ocr_worker = [r \in Requests |-> NoWorker]

\* lines 533-546 / 588-601: the size is computed, the image resized and saved
resize_call ==
    /\ ~resize.done
    /\ resize' = [resize EXCEPT
          !.size = Normalize(resize.w, resize.h),
          !.outcome = Preprocess([kind |-> "file", mode |-> "RGB",
                                  w |-> resize.w, h |-> resize.h], TRUE),
          !.done = TRUE]
    /\ UNCHANGED <<visible, timers, screenshot_widget, nreq, current_screenshot,
                   text_edit, image_label, image, tmp, wstate, ocr_worker, engineOut, emits,
                   startup, parse, ocr_worker>>

NextResize == resize_call

SpecResize == InitResize /\ [][NextResize]_vars

\* ------------------------------------------------------------------ claims
Undelivered == {"started", "engine", "emitted"}
ThreadAlive == {"started", "engine", "emitted", "handled", "quitting"}

\* C1: at most one request is in flight: no request is started while another
\* one's worker has been started and its outcome has not yet been delivered.
C1_OneRequestInFlight ==
    Cardinality({r \in Requests : wstate[r] \in Undelivered}) <= 1

\* C2: the worker of a request emits nothing before run ends and exactly one
\* signal, result_ready or error_occurred, once run has ended.
C2_ExactlyOneOutcome ==
    \A r \in Requests :
        /\ wstate[r] \in {"none", "started", "engine"} => emits[r] = <<>>
        /\ wstate[r] \in {"emitted", "handled", "quitting", "finished"} =>
              /\ Len(emits[r]) = 1
              /\ emits[r][1].sig \in {"result_ready", "error_occurred"}

C2_Witness ==
    /\ wstate[1] = "finished"
    /\ engineOut[1] # NoOutput
    /\ emits[1][1].sig = "result_ready"

\* C3: every temporary file that exists belongs to a request whose thread is
\* alive, so that its cleanup is still to run; no path leaves a file behind.
C3_TempFilesCleaned ==
    \A r \in Requests : tmp[r] = "exists" => wstate[r] \in ThreadAlive

\* C4: the temporary file of a request exists from the start of its worker
\* until its thread has finished, and it is deleted only after the worker has
\* emitted its outcome and the thread has finished.
C4_TempFileOutlivesWorker ==
    \A r \in Requests :
        /\ wstate[r] \in ThreadAlive => tmp[r] = "exists"
        /\ tmp[r] = "deleted" => (wstate[r] = "finished" /\ Len(emits[r]) >= 1)

C4_Witness ==
    \E r, q \in Requests :
        /\ wstate[r] = "engine" /\ tmp[r] = "exists"
        /\ wstate[q] = "finished" /\ tmp[q] = "deleted"

\* C5: when handle_ocr_result shows the text of request r, the image it shows
\* with it is the source image of request r.
C5_NoStaleMerge ==
    [][\A r \in Requests :
          (/\ wstate[r] = "emitted"
           /\ wstate'[r] = "handled"
           /\ emits[r][1].sig = "result_ready"
           /\ text_edit' = emits[r][1].text
           /\ image[current_screenshot].mode # "truncated")
          => image_label' = r]_vars

\* C6: an engine run with empty stdout ends in error_occurred carrying the
\* no-text-recognized sentinel, never in result_ready.
C6_EmptyStdoutIsFailure ==
    \A r \in Requests :
        (engineOut[r] # NoOutput /\ engineOut[r].stdout = <<>>) =>
            emits[r] = <<[sig |-> "error_occurred", text |-> Sentinel]>>

TextTokens == {"a", "b", "SP", "NL"}

\* C7: when stdout holds only text lines and stderr is empty, the text
\* delivered is the stripped non-empty lines of stdout in order, without any
\* of the markers the worker adds around stdout and stderr.
C7_CleanStdoutDeliveredVerbatim ==
    \A r \in Requests :
        (/\ engineOut[r] # NoOutput
         /\ engineOut[r].stderr = <<>>
         /\ Range(engineOut[r].stdout) \subseteq TextTokens
         /\ StripLines(Split(engineOut[r].stdout)) # <<>>) =>
            /\ emits[r] = <<[sig |-> "result_ready",
                             text |-> Join(StripLines(Split(engineOut[r].stdout)))]>>
            /\ "SM" \notin Range(emits[r][1].text)
            /\ "EM" \notin Range(emits[r][1].text)

\* C8: after an engine run the worker emits error_occurred exactly when the
\* parsed text is the sentinel or contains the failure marker, and otherwise
\* result_ready; either signal carries the parsed text.
C8_ClassifiedByContent ==
    \A r \in Requests :
        engineOut[r] # NoOutput =>
            /\ Len(emits[r]) = 1
            /\ emits[r][1].sig \in {"result_ready", "error_occurred"}
            /\ emits[r][1].text = filter_ocr_bytes(run_raw_bytes(engineOut[r]))
            /\ emits[r][1].sig = "error_occurred" <=>
                  (emits[r][1].text = <<"NT">> \/ "FM" \in Range(emits[r][1].text))

C8_Witness ==
    /\ engineOut[1] # NoOutput
    /\ wstate[1] = "handled"
    /\ emits[1][1].sig = "error_occurred"
    /\ emits[1][1].text = <<"NT">>

\* C9: when the capture flow started by start_screenshot ends (the overlay
\* closes, or the timer fires and no overlay comes up), the main window is
\* shown again or a worker has been started whose outcome will show it.
C9_WindowReturns ==
    [][((screenshot_widget.open /\ ~screenshot_widget'.open)
        \/ (timers' < timers /\ ~screenshot_widget'.open))
       => (visible' \/ \E r \in Requests : wstate'[r] = "started")]_vars

\* C10: every pointer-up closes the overlay and emits screenshot_taken at most
\* once; a selection 10 px or less wide or high emits nothing, so no request,
\* no temporary file and no worker come of it.
C10_DiscardedSelectionEmitsNothing ==
    [][(screenshot_widget.rubberband /\ ~screenshot_widget'.rubberband
        /\ timers' = timers)
       => /\ ~screenshot_widget'.open
          /\ nreq' \in {nreq, nreq + 1}
          /\ (screenshot_widget.current_rect.w <= 10
              \/ screenshot_widget.current_rect.h <= 10)
             => /\ nreq' = nreq
                /\ current_screenshot' = current_screenshot
                /\ tmp' = tmp
                /\ wstate' = wstate]_vars

C10_Witness ==
    /\ ~screenshot_widget.open
    /\ nreq = 0
    /\ screenshot_widget.current_rect.w = 10
    /\ screenshot_widget.current_rect.h > 10

\* a crop was made by the overlay's release handler
Cropped == screenshot_widget.cropped # NoCrop

\* C11: every crop box emitted lies inside the physical buffer and is not
\* empty, 0 <= x1 < x2 <= physical_width and 0 <= y1 < y2 <= physical_height,
\* and the emitted image has the box's size
C11_CropInsideBuffer ==
    Cropped =>
        LET box == screenshot_widget.cropped
            m == screenshot_widget.monitor
        IN /\ 0 <= box[1] /\ box[1] < box[3] /\ box[3] <= m.physical_width
           /\ 0 <= box[2] /\ box[2] < box[4] /\ box[4] <= m.physical_height
           /\ nreq >= 1
           /\ image[1].w = box[3] - box[1]
           /\ image[1].h = box[4] - box[2]

\* a crop of a selection that reaches past the right and bottom edges
C11_Witness ==
    /\ Cropped
    /\ screenshot_widget.current_rect.x + screenshot_widget.current_rect.w
         > screenshot_widget.monitor.logical_width
    /\ screenshot_widget.current_rect.y + screenshot_widget.current_rect.h
         > screenshot_widget.monitor.logical_height
    /\ screenshot_widget.cropped[3] = screenshot_widget.monitor.physical_width

\* a crop of a selection that lies inside the logical screen
CroppedOnScreen ==
    /\ Cropped
    /\ screenshot_widget.current_rect.x >= 0
    /\ screenshot_widget.current_rect.y >= 0
    /\ screenshot_widget.current_rect.x + screenshot_widget.current_rect.w
         <= screenshot_widget.monitor.logical_width
    /\ screenshot_widget.current_rect.y + screenshot_widget.current_rect.h
         <= screenshot_widget.monitor.logical_height

\* c is a nearest integer of a * p / l (a half may go either way)
IsRounded(c, a, p, l) == 2 * (c * l - a * p) <= l /\ 2 * (a * p - c * l) <= l

\* c is a * p / l with its fraction dropped, for a >= 0
IsTruncated(c, a, p, l) == c * l <= a * p /\ a * p < (c + 1) * l

\* C12 as stated: every corner of a crop of an on-screen selection is the
\* rounded product of the logical coordinate and the scale
C12_RoundedCorners ==
    CroppedOnScreen =>
        LET box == screenshot_widget.cropped
            rect == screenshot_widget.current_rect
            m == screenshot_widget.monitor
        IN /\ IsRounded(box[1], rect.x, m.physical_width, m.logical_width)
           /\ IsRounded(box[2], rect.y, m.physical_height, m.logical_height)
           /\ IsRounded(box[3], rect.x + rect.w, m.physical_width, m.logical_width)
           /\ IsRounded(box[4], rect.y + rect.h, m.physical_height, m.logical_height)

\* C12: every corner of a crop of an on-screen selection is the product of
\* the logical coordinate and the scale with its fraction dropped, and a
\* 200 x 100 selection at scale 1.5 gives a 300 x 150 crop
C12_TruncatedCorners ==
    CroppedOnScreen =>
        LET box == screenshot_widget.cropped
            rect == screenshot_widget.current_rect
            m == screenshot_widget.monitor
        IN /\ IsTruncated(box[1], rect.x, m.physical_width, m.logical_width)
           /\ IsTruncated(box[2], rect.y, m.physical_height, m.logical_height)
           /\ IsTruncated(box[3], rect.x + rect.w, m.physical_width, m.logical_width)
           /\ IsTruncated(box[4], rect.y + rect.h, m.physical_height, m.logical_height)
           /\ (rect.w = 200 /\ rect.h = 100 /\ 2 * m.physical_width = 3 * m.logical_width
                   /\ 2 * m.physical_height = 3 * m.logical_height)
               => /\ box[3] - box[1] = 300
                  /\ box[4] - box[2] = 150

\* a 200 x 100 selection at (1, 1) and scale 1.5: the crop starts at (1, 1)
C12_Witness ==
    /\ CroppedOnScreen
    /\ screenshot_widget.current_rect = [x |-> 1, y |-> 1, w |-> 200, h |-> 100]
    /\ screenshot_widget.monitor.physical_width = 360
    /\ screenshot_widget.cropped = <<1, 1, 301, 151>>

\* the engine process of request r is running
EngineRunning(r) == wstate[r] = "engine"

\* an event the user can raise whatever the requests are doing
UIHandling == closeEvent \/ TrayShow

\* what the UI thread owns: the window, the overlay, the request bookkeeping
UIState ==
    <<visible, timers, screenshot_widget, nreq, current_screenshot, text_edit,
      image_label, image, tmp>>

\* C13: while an engine process runs the UI thread can still handle an event,
\* and the steps that launch the engine and that end its wait leave everything
\* the UI thread owns unchanged: the outcome reaches the window in a later step
C13_EngineOffUIThread ==
    /\ [](\A r \in Requests : EngineRunning(r) => ENABLED UIHandling)
    /\ [][\A r \in Requests :
            (EngineRunning(r) # EngineRunning(r)' /\ startup'.phase = "running")
                => UNCHANGED UIState]_vars

\* the UI thread accepted a second request while the first one's engine ran,
\* and an outcome is emitted that the window has not yet taken in
C13_Witness ==
    /\ EngineRunning(1)
    /\ wstate[2] = "emitted"
    /\ emits[2] # <<>>
    /\ text_edit = Busy

\* the texts of the exceptions raised before or by the launch of the engine
LaunchFailures == {<<"EXC", "no_engine">>, <<"EXC", "no_models">>, <<"EXC", "spawn_error">>}

\* request r has emitted the text of an exception caught in run
LaunchFailed(r) == \E i \in 1..Len(emits[r]) : emits[r][i].text \in LaunchFailures

\* C14: when the engine or the models directory is missing, or the launch
\* raises, no engine process has run for the request, its one outcome is an
\* error, and the worker thread goes on to quit and finish, which removes the
\* request's temporary file
C14_LaunchFailureIsError ==
    \A r \in Requests :
        LaunchFailed(r) =>
            /\ ~EngineRunning(r)
            /\ engineOut[r] = NoOutput
            /\ Len(emits[r]) = 1
            /\ emits[r][1].sig = "error_occurred"
            /\ wstate[r] \in {"emitted", "handled", "quitting", "finished"}
            /\ wstate[r] = "emitted" => ENABLED handle_ocr_error(r)
            /\ wstate[r] = "handled" => ENABLED thread_quit(r)
            /\ wstate[r] = "quitting" => ENABLED thread_finished(r)
            /\ wstate[r] = "finished" => tmp[r] = "deleted"

\* the models directory was missing: the thread has finished, the file is gone
C14_Witness ==
    /\ emits[1] = <<[sig |-> "error_occurred", text |-> <<"EXC", "no_models">>]>>
    /\ wstate[1] = "finished"
    /\ tmp[1] = "deleted"
    /\ engineOut[1] = NoOutput

\* the files the program looks for that are not there
Absent == StartupFiles \ startup.present

\* C15: when the engine or a required model file is missing the program
\* lists exactly the missing files and exits with a non-zero code, and the
\* main window is never created or shown; the window is created only when
\* every file is in place
C15_StartupCheck ==
    /\ startup.phase # "running" => ~visible
    /\ startup.phase = "running" => Absent = {} /\ visible
    /\ startup.phase = "exited" =>
          /\ Absent # {}
          /\ Range(startup.missing) = Absent
          /\ startup.exit_code # 0
    /\ (startup.phase = "checking" /\ startup.i = Len(required_models) + 1) =>
          IF Absent # {}
          THEN ENABLED startup_exit /\ ~ENABLED create_window
          ELSE ENABLED create_window /\ ~ENABLED startup_exit

\* the program has exited because only the last model file was missing
C15_Witness ==
    /\ startup.phase = "exited"
    /\ startup.missing = <<"rec">>
    /\ startup.exit_code = 1
    /\ ~visible

\* the part of a buffer before the first error marker, the whole if none
BeforeErrorMarker(b) ==
    IF Find(b, "EM", 1) = 0 THEN b ELSE SubSeq(b, 1, Find(b, "EM", 1) - 1)

\* the buffer holds the detect-time marker in the part the parser reads
HasDetectMarker(b) == "DT" \in Range(BeforeErrorMarker(b))

\* what follows the line of the first detect-time marker: nothing when that
\* line is the last one
AfterMarkerLine(b) ==
    LET t == BeforeErrorMarker(b)
        nl == Find(t, "NL", Find(t, "DT", 1))
    IN IF nl = 0 THEN <<>> ELSE SubSeq(t, nl + 1, Len(t))

\* the text of the stripped non-empty lines of a buffer, the sentinel if none
LinesOrSentinel(b) ==
    IF StripLines(Split(Decode(b))) = <<>> THEN Sentinel
    ELSE Join(StripLines(Split(Decode(b))))

\* C16: for a buffer that holds the detect-time marker the parser returns
\* the stripped non-empty lines that follow the marker's line and nothing of
\* that line, also when it is the last line and has no newline
C16_MarkerLineDropped ==
    (parse.done /\ HasDetectMarker(parse.raw_bytes)) =>
        parse.returned = LinesOrSentinel(AfterMarkerLine(parse.raw_bytes))

\* what is left of a buffer after the cut at the error marker and the removal
\* of the marker's line
Remaining(b) ==
    IF HasDetectMarker(b) THEN AfterMarkerLine(b) ELSE BeforeErrorMarker(b)

\* C17: the parser returns for every buffer, never returns the empty
\* string, and returns the sentinel exactly when no non-empty line remains
\* after the cut, the removal of the marker's line and stripping
C17_SentinelIffNothingRemains ==
    parse.done =>
        /\ parse.returned # <<>>
        /\ parse.returned = Sentinel
             <=> StripLines(Split(Decode(Remaining(parse.raw_bytes)))) = <<>>

\* what may stand behind the first error marker
Tails == {<<>>, <<"a">>, <<"NL", "a">>, <<"DT", "NL">>, <<"EM", "a">>, <<"X">>}

\* C19: for a buffer that holds the error marker the text returned is the
\* one returned for the part before its first occurrence, whatever stands
\* at or behind the marker
C19_NothingBehindErrorMarker ==
    (parse.done /\ "EM" \in Range(parse.raw_bytes)) =>
        /\ parse.returned = filter_ocr_bytes(BeforeErrorMarker(parse.raw_bytes))
        /\ \A t \in Tails :
              filter_ocr_bytes(BeforeErrorMarker(parse.raw_bytes) \o <<"EM">> \o t)
                  = parse.returned

\* text, the error marker, then a failure literal and an undecodable byte
C19_Witness ==
    /\ parse.done
    /\ parse.raw_bytes = <<"a", "EM", "FM", "X">>
    /\ parse.returned = <<"a">>

\* C18: an image within 1280 x 720 keeps its size, and an image of at least
\* 1 x 1 that exceeds a bound is resized to a size with 1 <= w' <= 1280 and
\* 1 <= h' <= 720 that a second normalisation leaves alone, and is written
C18_NormalizedSize ==
    resize.done =>
        /\ (resize.w <= max_width /\ resize.h <= max_height)
              => resize.size = <<resize.w, resize.h>>
        /\ 1 <= resize.size[1] /\ resize.size[1] <= max_width
        /\ 1 <= resize.size[2] /\ resize.size[2] <= max_height
        /\ Normalize(resize.size[1], resize.size[2]) = resize.size
        /\ resize.outcome = "started"

\* how far the thread and worker of a request have come
Stage(w) ==
    CASE w = "none" -> 0
      [] w = "started" -> 1
      [] w = "engine" -> 2
      [] w = "emitted" -> 3
      [] w = "handled" -> 4
      [] w = "quitting" -> 5
      [] w = "finished" -> 6
      [] w = "aborted" -> 7

\* the order of the stages in every state: the file is written before the
\* thread starts and is there until the thread has finished, engine output
\* and an outcome exist only from the emission on, a recognised text was
\* parsed from engine output, and the unlink follows the emission
LifecycleOrder(r) ==
    wstate[r] # "aborted" =>
    /\ wstate[r] \in {"started", "engine", "emitted", "handled", "quitting"}
          => tmp[r] = "exists"
    /\ engineOut[r] # NoOutput => Stage(wstate[r]) >= 3
    /\ emits[r] # <<>> <=> Stage(wstate[r]) >= 3
    /\ (emits[r] # <<>> /\ ~LaunchFailed(r)) => engineOut[r] # NoOutput
    /\ tmp[r] = "deleted" => wstate[r] = "finished"
    /\ (r > nreq \/ wstate[r] = "none") => engineOut[r] = NoOutput /\ emits[r] = <<>>
    /\ r > nreq => tmp[r] = "none" /\ wstate[r] = "none"

\* C20: every request goes through its stages in order and never backwards:
\* file written, thread started, engine run, outcome emitted, thread
\* finished and file unlinked; a request whose resizing or saving raised
\* never has a worker or an engine
C20_LifecycleInOrder ==
    /\ [](\A r \in Requests : LifecycleOrder(r))
    /\ [][\A r \in Requests :
            /\ Stage(wstate[r]') >= Stage(wstate[r])
            /\ wstate[r]' # "aborted" => Stage(wstate[r]') <= Stage(wstate[r]) + 2
            /\ (wstate[r]' # "aborted" /\ Stage(wstate[r]') = Stage(wstate[r]) + 2)
                  => wstate[r] = "started"
            /\ (r <= nreq /\ wstate[r] = "none") => wstate[r]' = "none"
            /\ tmp[r] = "deleted" => tmp[r]' = "deleted"]_vars

\* request 1 was aborted when saving raised, request 2 went through every
\* stage and its file is unlinked
C20_Witness ==
    /\ nreq = 2
    /\ wstate[1] = "none"
    /\ tmp[1] = "exists"
    /\ wstate[2] = "finished"
    /\ tmp[2] = "deleted"
    /\ engineOut[2] # NoOutput
    /\ emits[2] # <<>>

\* the thread of request r takes its finished step, which runs the unlink
Finishes(r) == wstate[r] = "quitting" /\ wstate[r]' = "finished"

\* C21: the worker of a request holds the path of that request's file and
\* its engine is launched on that file while the file is there, and a file
\* is unlinked only by the finished step of its own request's thread, which
\* leaves every other request's file as it was; also when a later request
\* has replaced ocr_thread and ocr_worker on the window
C21_CleanupPerRequest ==
    /\ [](\A r \in Requests :
            /\ ocr_worker[r].image_path \in {0, r}
            /\ ocr_worker[r].cmd_image \in {0, r}
            /\ wstate[r] \in ThreadRunning => ocr_worker[r].image_path = r)
    /\ [][\A r \in Requests :
            /\ ocr_worker[r].cmd_image' # ocr_worker[r].cmd_image
                  => tmp[ocr_worker[r].cmd_image'] = "exists"
            /\ tmp[r]' # tmp[r] /\ tmp[r]' = "deleted" => Finishes(r)
            /\ Finishes(r) =>
                  /\ tmp[r]' = "deleted"
                  /\ \A q \in Requests \ {r} : tmp[q]' = tmp[q]]_vars

\* request 2 was started while the thread of request 1 was running; request
\* 1 has finished and its file is unlinked, the engine of request 2 is
\* running on the file of request 2, which is still there
C21_Witness ==
    /\ wstate[1] = "finished"
    /\ tmp[1] = "deleted"
    /\ wstate[2] = "engine"
    /\ ocr_worker[2].cmd_image = 2
    /\ tmp[2] = "exists"
    /\ engineOut[1] # NoOutput
    /\ image_label = -1

=============================================================================
